---- MODULE Spec2Model ----
(***************************************************************************)
(* State machine of state_rviz_plugin::WholeBodyTrajectoryDisplay          *)
(* (src/src/WholeBodyTrajectoryDisplay.cpp).                               *)
(*                                                                         *)
(* Lengths are fixed-point integers in units of 0.01 m, squared lengths in *)
(* units of 0.0001 m^2.  A shared_ptr is a sequence of length 0 (null) or  *)
(* 1 (owning one object).  Vectors are <<x, y, z>>, quaternions are        *)
(* <<x, y, z, w>> (the order of the message fields).                       *)
(***************************************************************************)
EXTENDS Integers, Sequences, FiniteSets, TLC

VARIABLES
  msg_,                    \* shared_ptr to the last message
  is_info_,                \* a message was received
  com_enable_, contact_enable_,
  com_style_property_, contact_style_property_,
  com_color_property_, contact_color_property_,       \* RGB and alpha
  com_line_width_property_, contact_line_width_property_,
  com_scale_property_,
  com_billboard_line_, com_manual_object_, com_points_, com_axes_,
  contact_billboard_line_, contact_manual_object_, contact_points_,
  last_point_position_,
  tf_,                     \* what FrameManager::getTransform yields for
                           \* msg_->header in the fixed frame (null: no message)
  fault,                   \* undefined operations of the last handler
  crashed,                 \* the process was terminated by such an operation
  lastEvent,               \* the handler that ran last
  n_events                 \* number of handlers that ran

vars == << msg_, is_info_, com_enable_, contact_enable_,
           com_style_property_, contact_style_property_,
           com_color_property_, contact_color_property_,
           com_line_width_property_, contact_line_width_property_,
           com_scale_property_,
           com_billboard_line_, com_manual_object_, com_points_, com_axes_,
           contact_billboard_line_, contact_manual_object_, contact_points_,
           last_point_position_, tf_, fault, crashed, lastEvent, n_events >>

-----------------------------------------------------------------------------
(* Bounds of the model *)

MaxSteps == 2          \* longest trajectory of the exhaustive input set
MaxContacts == 2       \* most contacts in one step of that set
MaxEvents == 4         \* longest sequence of events
MaxAxesSteps == 3      \* longest trajectory of the axes input set

-----------------------------------------------------------------------------
(* Values *)

BILLBOARDS == "Billboards"
LINES == "Lines"
POINTS == "Points"
LineStyle == {BILLBOARDS, LINES, POINTS}

Null == << >>
Ptr(obj) == << obj >>

\* Codes of the non-finite floats; every other integer is a finite float.
NaN == 0 - 2^20
Inf == 2^20
NonFinite == {NaN, Inf}

isfinite(x) == x \notin NonFinite

Zero == <<0, 0, 0>>
IdentityQ == <<0, 0, 0, 1>>

\* 0.0032 m^2 in units of 0.0001 m^2
AxesDensity == 32

Min(a, b) == IF a < b THEN a ELSE b

-----------------------------------------------------------------------------
(* Sample sanitization and the frame transform *)

\* a sanity check that looks at x only
SanitizePositionOnlyX(p) ==
  IF ~isfinite(p[1]) THEN Zero ELSE p

\* the sanity check of a position (CoM and contact)
SanitizePosition(p) ==
  IF ~(isfinite(p[1]) /\ isfinite(p[2]) /\ isfinite(p[3])) THEN Zero ELSE p

\* the sanity check of the base orientation
SanitizeOrientation(q) ==
  IF ~(isfinite(q[1]) /\ isfinite(q[2]) /\ isfinite(q[3]) /\ isfinite(q[4]))
  THEN IdentityQ ELSE q

\* Ogre::Quaternion::operator* (Hamilton product), components <<x, y, z, w>>
QMul(a, b) ==
  << a[4]*b[1] + a[1]*b[4] + a[2]*b[3] - a[3]*b[2],
     a[4]*b[2] + a[2]*b[4] + a[3]*b[1] - a[1]*b[3],
     a[4]*b[3] + a[3]*b[4] + a[1]*b[2] - a[2]*b[1],
     a[4]*b[4] - a[1]*b[1] - a[2]*b[2] - a[3]*b[3] >>

\* Ogre::Matrix4(orientation) applied to v: the rotation matrix of q times v
Rotate(q, v) ==
  LET x == q[1]  y == q[2]  z == q[3]  w == q[4] IN
  << (1 - 2*(y*y + z*z))*v[1] + 2*(x*y - w*z)*v[2] + 2*(x*z + w*y)*v[3],
     2*(x*y + w*z)*v[1] + (1 - 2*(x*x + z*z))*v[2] + 2*(y*z - w*x)*v[3],
     2*(x*z - w*y)*v[1] + 2*(y*z + w*x)*v[2] + (1 - 2*(x*x + y*y))*v[3] >>

\* transform * point, transform = Matrix4(orientation) with setTrans(position)
Transform(t, p) ==
  LET r == Rotate(t.orientation, p) IN
  << r[1] + t.position[1], r[2] + t.position[2], r[3] + t.position[3] >>

\* Ogre::Vector3::squaredDistance; a NaN operand yields NaN
squaredDistance(a, b) ==
  IF \E i \in 1..3 : a[i] = NaN \/ b[i] = NaN THEN NaN
  ELSE IF \E i \in 1..3 : a[i] = Inf \/ b[i] = Inf THEN Inf
  ELSE (a[1]-b[1])*(a[1]-b[1]) + (a[2]-b[2])*(a[2]-b[2])
       + (a[3]-b[3])*(a[3]-b[3])

\* float comparison a >= b with b finite: false for NaN, true for +Inf
FloatGeq(a, b) == a # NaN /\ (a = Inf \/ a >= b)

-----------------------------------------------------------------------------
(* Drawables.  fresh = created by the handler that ran last. *)

\* new rviz::BillboardLine, setNumLines(1), setMaxPointsPerLine, setLineWidth
NewBillboardLine(n_points, line_width) ==
  [pts |-> << >>, max |-> n_points, width |-> line_width, fresh |-> TRUE]

\* createManualObject, estimateVertexCount, begin(OT_LINE_STRIP)
NewManualObject(n_points) ==
  [pts |-> << >>, est |-> n_points, ended |-> FALSE, fresh |-> TRUE]

\* new PointVisual with setColor, setRadius, setPoint, setFramePosition,
\* setFrameOrientation
NewPointVisual(color, radius, point, t) ==
  [color |-> color, radius |-> radius, point |-> point,
   frame_position |-> t.position, frame_orientation |-> t.orientation,
   fresh |-> TRUE]

\* new rviz::Axes with setPosition, setOrientation, alpha of the three
\* colours, setScale
NewAxes(position, orientation, alpha, scale) ==
  [position |-> position, orientation |-> orientation, alpha |-> alpha,
   scale |-> scale, fresh |-> TRUE]

\* BillboardLine::addPoint / ManualObject::position + colour
addPoint(obj, point, color) ==
  [obj EXCEPT !.pts = Append(@, [p |-> point, c |-> color])]

\* a restyling that sets the width and leaves the colour
RestyleWidthOnly(obj, line_width, color) ==
  [obj EXCEPT !.width = line_width]

\* BillboardLine::setLineWidth and setColor (recolours every point)
Restyle(obj, line_width, color) ==
  [obj EXCEPT !.width = line_width,
              !.pts = [k \in DOMAIN @ |-> [@[k] EXCEPT !.c = color]]]

AgePtr(p) == [k \in DOMAIN p |-> [p[k] EXCEPT !.fresh = FALSE]]
AgePtrs(s) == [k \in DOMAIN s |-> AgePtr(s[k])]
AgeRows(s) == [k \in DOMAIN s |-> AgePtrs(s[k])]

\* The object at the start of a handler: nothing it owns is fresh, no fault.
This ==
  [msg_ |-> msg_, is_info_ |-> is_info_,
   com_enable_ |-> com_enable_, contact_enable_ |-> contact_enable_,
   com_style |-> com_style_property_,
   contact_style |-> contact_style_property_,
   com_color |-> com_color_property_,
   contact_color |-> contact_color_property_,
   com_line_width |-> com_line_width_property_,
   contact_line_width |-> contact_line_width_property_,
   com_scale |-> com_scale_property_,
   com_billboard_line_ |-> AgePtr(com_billboard_line_),
   com_manual_object_ |-> AgePtr(com_manual_object_),
   com_points_ |-> AgePtr(com_points_),
   com_axes_ |-> AgePtr(com_axes_),
   contact_billboard_line_ |-> AgePtrs(contact_billboard_line_),
   contact_manual_object_ |-> AgePtrs(contact_manual_object_),
   contact_points_ |-> AgeRows(contact_points_),
   last_point_position_ |-> last_point_position_,
   tf_ |-> tf_,
   fault |-> {}]

Fault(o, site) == [o EXCEPT !.fault = @ \cup {site}]

-----------------------------------------------------------------------------
(* pushBackCoMAxes *)

\* a pushBackCoMAxes that moves the reference to every sample it sees
pushBackCoMAxesRawReference(o, axes_position, axes_orientation) ==
  LET scale == o.com_scale
      sq_distant == squaredDistance(axes_position, o.last_point_position_)
  IN IF FloatGeq(sq_distant, scale * scale * AxesDensity)
     THEN [o EXCEPT !.com_axes_ = Append(@,
               NewAxes(axes_position, axes_orientation, o.com_color.a, scale)),
                    !.last_point_position_ = axes_position]
     ELSE [o EXCEPT !.last_point_position_ = axes_position]

pushBackCoMAxes(o, axes_position, axes_orientation) ==
  LET scale == o.com_scale
      sq_distant == squaredDistance(axes_position, o.last_point_position_)
  IN IF FloatGeq(sq_distant, scale * scale * AxesDensity)
     THEN [o EXCEPT !.com_axes_ = Append(@,
               NewAxes(axes_position, axes_orientation, o.com_color.a, scale)),
                    !.last_point_position_ = axes_position]
     ELSE o

-----------------------------------------------------------------------------
(* processCoMTrajectory *)

\* one iteration of the loop over msg_->trajectory, i counted from 1
CoMStep(o, t, i, n_points) ==
  LET state == o.msg_[1].trajectory[i]
      com_position == SanitizePosition(state.com_position)
      base_orientation == SanitizeOrientation(state.base_orientation)
      point_position == Transform(t, com_position)
      o1 == pushBackCoMAxes(o, point_position,
                            QMul(base_orientation, t.orientation))
  IN CASE o.com_style = BILLBOARDS ->
            LET line == IF i = 1
                        THEN NewBillboardLine(n_points, o.com_line_width)
                        ELSE o1.com_billboard_line_[1]
            IN [o1 EXCEPT !.com_billboard_line_ =
                            Ptr(addPoint(line, point_position, o.com_color))]
       [] o.com_style = LINES ->
            LET obj == IF i = 1 THEN NewManualObject(n_points)
                       ELSE o1.com_manual_object_[1]
            IN [o1 EXCEPT !.com_manual_object_ =
                            Ptr(addPoint(obj, point_position, o.com_color))]
       [] o.com_style = POINTS ->
            LET old == IF i = 1 THEN << >> ELSE o1.com_points_
            IN [o1 EXCEPT !.com_points_ = Append(old,
                   NewPointVisual(o.com_color, o.com_line_width,
                                  com_position, t))]

RECURSIVE CoMLoop(_, _, _, _)
CoMLoop(o, t, i, n_points) ==
  IF i > n_points THEN o
  ELSE CoMLoop(CoMStep(o, t, i, n_points), t, i + 1, n_points)

\* com_manual_object_->end() after the loop
CoMEnd(o) ==
  IF o.com_style # LINES THEN o
  ELSE IF o.com_manual_object_ = Null
       THEN Fault(o, "com_manual_object_->end")
       ELSE [o EXCEPT !.com_manual_object_[1].ended = TRUE]

processCoMTrajectory(o, t) ==
  IF ~o.com_enable_ THEN o
  ELSE IF o.msg_ = Null THEN Fault(o, "msg_->")
  ELSE LET n_points == Len(o.msg_[1].trajectory)
           o1 == [o EXCEPT !.com_axes_ = << >>]
       IN CoMEnd(CoMLoop(o1, t, 1, n_points))

-----------------------------------------------------------------------------
(* processContactTrajectory *)

Names == {"left_foot", "right_foot"}

\* iteration order of std::map<std::string, std::size_t>: by key
NameOrder == << "left_foot", "right_foot" >>

\* shared_ptr containers: vector::resize(n) of null pointers
NullVector(n) == [k \in 1..n |-> Null]

\* a count that forgets the names at every new step
RECURSIVE CountTracksPerStep(_, _, _, _, _)
CountTracksPerStep(trajectory, i, k, seen, n_traj) ==
  IF i > Len(trajectory) THEN n_traj
  ELSE IF k > Len(trajectory[i].contacts)
       THEN CountTracksPerStep(trajectory, i + 1, 1, {}, n_traj)
       ELSE LET name == trajectory[i].contacts[k].name IN
            IF name \notin seen
            THEN CountTracksPerStep(trajectory, i, k + 1, seen \cup {name},
                                    n_traj + 1)
            ELSE CountTracksPerStep(trajectory, i, k + 1, seen, n_traj)

\* the first loop: counts the names not yet in contact_traj_id
RECURSIVE CountTracks(_, _, _, _, _)
CountTracks(trajectory, i, k, seen, n_traj) ==
  IF i > Len(trajectory) THEN n_traj
  ELSE IF k > Len(trajectory[i].contacts)
       THEN CountTracks(trajectory, i + 1, 1, seen, n_traj)
       ELSE LET name == trajectory[i].contacts[k].name IN
            IF name \notin seen
            THEN CountTracks(trajectory, i, k + 1, seen \cup {name}, n_traj + 1)
            ELSE CountTracks(trajectory, i, k + 1, seen, n_traj)

\* contact_billboard_line_.clear() and resize(n_traj), or the one of the style
ResizeContainers(o, n_traj, n_points) ==
  CASE o.contact_style = BILLBOARDS ->
         [o EXCEPT !.contact_billboard_line_ = NullVector(n_traj)]
    [] o.contact_style = LINES ->
         [o EXCEPT !.contact_manual_object_ = NullVector(n_traj)]
    [] o.contact_style = POINTS ->
         [o EXCEPT !.contact_points_ = [k \in 1..n_points |-> << >>]]

\* The loop state: c.o the object, c.contact_traj_id the map name -> id,
\* c.contact_vec_id the map id -> index in the step's contacts, c.traj_id the
\* next id.  Ids and indices count from 0 as in the code; sequences from 1.

\* a new swing trajectory: create its strip at contact_xxx_[traj_id]
NewTrack(c, name, k, n_points) ==
  LET o == c.o
      id == c.traj_id
      o1 == CASE o.contact_style = BILLBOARDS ->
                   IF id < Len(o.contact_billboard_line_)
                   THEN [o EXCEPT !.contact_billboard_line_[id + 1] =
                           Ptr(NewBillboardLine(n_points, o.contact_line_width))]
                   ELSE Fault(o, "contact_billboard_line_[traj_id]")
              [] o.contact_style = LINES ->
                   IF id < Len(o.contact_manual_object_)
                   THEN [o EXCEPT !.contact_manual_object_[id + 1] =
                           Ptr(NewManualObject(n_points))]
                   ELSE Fault(o, "contact_manual_object_[traj_id]")
              [] o.contact_style = POINTS -> o
  IN [o |-> o1,
      contact_traj_id |-> (name :> id) @@ c.contact_traj_id,
      contact_vec_id |-> (id :> k) @@ c.contact_vec_id,
      traj_id |-> id + 1]

\* the loop over the contacts of step i taken from the last to the first
RECURSIVE AssignLoopBackward(_, _, _, _)
AssignLoopBackward(c, contacts, k, n_points) ==
  IF k >= Len(contacts) THEN c
  ELSE LET idx == Len(contacts) - 1 - k
           name == contacts[idx + 1].name IN
       IF name \notin DOMAIN c.contact_traj_id
       THEN AssignLoopBackward(NewTrack(c, name, idx, n_points), contacts,
                               k + 1, n_points)
       ELSE LET swing_idx == c.contact_traj_id[name] IN
            AssignLoopBackward([c EXCEPT !.contact_vec_id[swing_idx] = idx],
                               contacts, k + 1, n_points)

\* the loop over the contacts of step i, k counted from 0
RECURSIVE AssignLoop(_, _, _, _)
AssignLoop(c, contacts, k, n_points) ==
  IF k >= Len(contacts) THEN c
  ELSE LET name == contacts[k + 1].name IN
       IF name \notin DOMAIN c.contact_traj_id
       THEN AssignLoop(NewTrack(c, name, k, n_points), contacts, k + 1, n_points)
       ELSE LET swing_idx == c.contact_traj_id[name] IN
            AssignLoop([c EXCEPT !.contact_vec_id[swing_idx] = k],
                       contacts, k + 1, n_points)

\* adds the point of one track at step i only if the contact stored at the
\* track's index bears the track's name
PlotTrackOwnName(p, c, t, i, name) ==
  LET o == p.o
      contacts == o.msg_[1].trajectory[i].contacts
      n_contacts == Len(contacts)
      traj_id == c.contact_traj_id[name]
      id == c.contact_vec_id[traj_id]
  IN IF ~(id < n_contacts /\ contacts[id + 1].name = name) THEN p
     ELSE
  LET contact_position == SanitizePosition(contacts[id + 1].position)
      point_position == Transform(t, contact_position)
  IN CASE o.contact_style = BILLBOARDS ->
            IF traj_id < Len(o.contact_billboard_line_)
               /\ o.contact_billboard_line_[traj_id + 1] # Null
            THEN [p EXCEPT !.o.contact_billboard_line_[traj_id + 1][1] =
                     addPoint(@, point_position, o.contact_color)]
            ELSE [p EXCEPT !.o = Fault(o, "contact_billboard_line_[traj_id]")]
       [] o.contact_style = LINES ->
            IF traj_id < Len(o.contact_manual_object_)
               /\ o.contact_manual_object_[traj_id + 1] # Null
            THEN [p EXCEPT !.o.contact_manual_object_[traj_id + 1][1] =
                     addPoint(@, point_position, o.contact_color)]
            ELSE [p EXCEPT !.o = Fault(o, "contact_manual_object_[traj_id]")]
       [] o.contact_style = POINTS ->
            IF p.contact_idx < Len(o.contact_points_[i])
            THEN [p EXCEPT !.o.contact_points_[i][p.contact_idx + 1] =
                     Ptr(NewPointVisual(o.contact_color, o.contact_line_width,
                                        point_position, t)),
                           !.contact_idx = @ + 1]
            ELSE [p EXCEPT !.o = Fault(o, "contact_points_[i][contact_idx]"),
                           !.contact_idx = @ + 1]

\* adds the point of one track at step i (i counted from 1), if it has one;
\* p.o the object, p.contact_idx the next column of contact_points_[i]
PlotTrack(p, c, t, i, name) ==
  LET o == p.o
      contacts == o.msg_[1].trajectory[i].contacts
      n_contacts == Len(contacts)
      traj_id == c.contact_traj_id[name]
      id == c.contact_vec_id[traj_id]
  IN IF ~(id < n_contacts) THEN p
     ELSE
  LET contact_position == SanitizePosition(contacts[id + 1].position)
      point_position == Transform(t, contact_position)
  IN CASE o.contact_style = BILLBOARDS ->
            IF traj_id < Len(o.contact_billboard_line_)
               /\ o.contact_billboard_line_[traj_id + 1] # Null
            THEN [p EXCEPT !.o.contact_billboard_line_[traj_id + 1][1] =
                     addPoint(@, point_position, o.contact_color)]
            ELSE [p EXCEPT !.o = Fault(o, "contact_billboard_line_[traj_id]")]
       [] o.contact_style = LINES ->
            IF traj_id < Len(o.contact_manual_object_)
               /\ o.contact_manual_object_[traj_id + 1] # Null
            THEN [p EXCEPT !.o.contact_manual_object_[traj_id + 1][1] =
                     addPoint(@, point_position, o.contact_color)]
            ELSE [p EXCEPT !.o = Fault(o, "contact_manual_object_[traj_id]")]
       [] o.contact_style = POINTS ->
            IF p.contact_idx < Len(o.contact_points_[i])
            THEN [p EXCEPT !.o.contact_points_[i][p.contact_idx + 1] =
                     Ptr(NewPointVisual(o.contact_color, o.contact_line_width,
                                        point_position, t)),
                           !.contact_idx = @ + 1]
            ELSE [p EXCEPT !.o = Fault(o, "contact_points_[i][contact_idx]"),
                           !.contact_idx = @ + 1]

\* the loop over contact_traj_id, in key order
RECURSIVE PlotLoop(_, _, _, _, _)
PlotLoop(p, c, t, i, j) ==
  IF j > Len(NameOrder) THEN p
  ELSE IF NameOrder[j] \in DOMAIN c.contact_traj_id
       THEN PlotLoop(PlotTrack(p, c, t, i, NameOrder[j]), c, t, i, j + 1)
       ELSE PlotLoop(p, c, t, i, j + 1)

\* one iteration of the main loop that adds the points of the step twice
ContactStepPlotsTwice(c, t, i, n_points) ==
  LET contacts == c.o.msg_[1].trajectory[i].contacts
      c1 == AssignLoop(c, contacts, 0, n_points)
      o1 == IF c1.o.contact_style = POINTS
            THEN [c1.o EXCEPT !.contact_points_[i] = NullVector(Len(contacts))]
            ELSE c1.o
      p == PlotLoop(PlotLoop([o |-> o1, contact_idx |-> 0], c1, t, i, 1),
                    c1, t, i, 1)
  IN [c1 EXCEPT !.o = p.o]

\* one iteration of the main loop, i counted from 1
ContactStep(c, t, i, n_points) ==
  LET contacts == c.o.msg_[1].trajectory[i].contacts
      c1 == AssignLoop(c, contacts, 0, n_points)
      o1 == IF c1.o.contact_style = POINTS
            THEN [c1.o EXCEPT !.contact_points_[i] = NullVector(Len(contacts))]
            ELSE c1.o
      p == PlotLoop([o |-> o1, contact_idx |-> 0], c1, t, i, 1)
  IN [c1 EXCEPT !.o = p.o]

RECURSIVE ContactLoop(_, _, _, _)
ContactLoop(c, t, i, n_points) ==
  IF i > n_points THEN c
  ELSE ContactLoop(ContactStep(c, t, i, n_points), t, i + 1, n_points)

\* contact_manual_object_[i]->end() for i < traj_id
RECURSIVE ContactEnd(_, _, _)
ContactEnd(o, i, traj_id) ==
  IF o.contact_style # LINES \/ i >= traj_id THEN o
  ELSE IF i < Len(o.contact_manual_object_)
          /\ o.contact_manual_object_[i + 1] # Null
       THEN ContactEnd([o EXCEPT !.contact_manual_object_[i + 1][1].ended = TRUE],
                       i + 1, traj_id)
       ELSE ContactEnd(Fault(o, "contact_manual_object_[i]->end"),
                       i + 1, traj_id)

\* the state of the loop after the whole pass
ContactPass(o, t) ==
  LET trajectory == o.msg_[1].trajectory
      n_points == Len(trajectory)
      n_traj == CountTracks(trajectory, 1, 1, {}, 0)
      o1 == ResizeContainers(o, n_traj, n_points)
      c0 == [o |-> o1, contact_traj_id |-> << >>, contact_vec_id |-> << >>,
             traj_id |-> 0]
      c == ContactLoop(c0, t, 1, n_points)
  IN [c EXCEPT !.o = ContactEnd(c.o, 0, c.traj_id)]

processContactTrajectory(o, t) ==
  IF ~o.contact_enable_ THEN o
  ELSE IF o.msg_ = Null THEN Fault(o, "msg_->")
  ELSE ContactPass(o, t).o

-----------------------------------------------------------------------------
(* The handlers, as functions of the object *)

destroyObjects(o) ==
  [o EXCEPT !.com_manual_object_ = Null,
            !.com_billboard_line_ = Null,
            !.com_points_ = << >>,
            !.com_axes_ = << >>,
            !.contact_manual_object_ = << >>,
            !.contact_billboard_line_ = << >>,
            !.contact_points_ = << >>]

\* contact_points_[i][j].reset() and contact_points_[i].clear() for every i
ClearRows(rows) == [k \in DOMAIN rows |-> << >>]

\* container[i].reset() for i < n; an index past the end is undefined
RECURSIVE ResetFirst(_, _, _, _)
ResetFirst(o, field, i, n) ==
  IF i >= n THEN o
  ELSE IF i < Len(o[field])
       THEN ResetFirst([o EXCEPT ![field][i + 1] = Null], field, i + 1, n)
       ELSE ResetFirst(Fault(o, field \o "[i]"), field, i + 1, n)

processMessage(o, msg, t) ==
  LET o1 == [o EXCEPT !.msg_ = Ptr(msg), !.is_info_ = TRUE, !.tf_ = Ptr(t)]
  IN processContactTrajectory(processCoMTrajectory(destroyObjects(o1), t), t)

\* a frame change that draws without looking at is_info_
fixedFrameChangedUnguarded(o, t) ==
  processContactTrajectory(
    processCoMTrajectory([o EXCEPT !.tf_ = Ptr(t)], t), t)

fixedFrameChanged(o, t) ==
  IF o.is_info_
  THEN processContactTrajectory(
         processCoMTrajectory([o EXCEPT !.tf_ = Ptr(t)], t), t)
  ELSE o

\* MFDClass::reset() touches no member of this class
reset(o) == o

\* a style change of the CoM group that keeps the point markers
updateCoMStyleKeepsPoints(o, t) ==
  LET o1 == CASE o.com_style = BILLBOARDS ->
                   [o EXCEPT !.com_manual_object_ = Null]
              [] o.com_style = LINES ->
                   [o EXCEPT !.com_billboard_line_ = Null]
              [] o.com_style = POINTS ->
                   [o EXCEPT !.com_manual_object_ = Null,
                             !.com_billboard_line_ = Null]
  IN IF o1.is_info_ THEN processCoMTrajectory(o1, t) ELSE o1

\* a style change of the CoM group that draws both groups again
updateCoMStyleBothGroups(o, t) ==
  LET o1 == CASE o.com_style = BILLBOARDS ->
                   [o EXCEPT !.com_manual_object_ = Null, !.com_points_ = << >>]
              [] o.com_style = LINES ->
                   [o EXCEPT !.com_billboard_line_ = Null, !.com_points_ = << >>]
              [] o.com_style = POINTS ->
                   [o EXCEPT !.com_manual_object_ = Null,
                             !.com_billboard_line_ = Null]
  IN IF o1.is_info_
     THEN processContactTrajectory(processCoMTrajectory(o1, t), t)
     ELSE o1

\* o.com_style is the style just selected
updateCoMStyle(o, t) ==
  LET o1 == CASE o.com_style = BILLBOARDS ->
                   [o EXCEPT !.com_manual_object_ = Null, !.com_points_ = << >>]
              [] o.com_style = LINES ->
                   [o EXCEPT !.com_billboard_line_ = Null, !.com_points_ = << >>]
              [] o.com_style = POINTS ->
                   [o EXCEPT !.com_manual_object_ = Null,
                             !.com_billboard_line_ = Null]
  IN IF o1.is_info_ THEN processCoMTrajectory(o1, t) ELSE o1

\* o.com_enable_ is the value just selected
updateCoMEnable(o) ==
  IF ~o.com_enable_
  THEN [o EXCEPT !.com_billboard_line_ = Null,
                 !.com_manual_object_ = Null,
                 !.com_points_ = << >>]
  ELSE o

updateContactEnable(o) ==
  IF ~o.contact_enable_
  THEN [o EXCEPT !.contact_manual_object_ = NullVector(Len(@)),
                 !.contact_billboard_line_ = NullVector(Len(@)),
                 !.contact_points_ = ClearRows(@)]
  ELSE o

\* the loop over com_axes_ of updateCoMLineProperties
RestyleAxes(o) ==
  [o EXCEPT !.com_axes_ =
     [k \in DOMAIN @ |-> [@[k] EXCEPT !.alpha = o.com_color.a,
                                      !.scale = o.com_scale]]]

updateCoMLineProperties(o, t) ==
  CASE o.com_style = BILLBOARDS ->
         RestyleAxes(
           IF o.com_billboard_line_ = Null
           THEN Fault(o, "com_billboard_line_->setLineWidth")
           ELSE [o EXCEPT !.com_billboard_line_[1] =
                            Restyle(@, o.com_line_width, o.com_color)])
    [] o.com_style = LINES ->
         IF o.is_info_ THEN processCoMTrajectory(o, t) ELSE o
    [] o.com_style = POINTS ->
         RestyleAxes(
           [o EXCEPT !.com_points_ =
              [k \in DOMAIN @ |-> [@[k] EXCEPT !.color = o.com_color,
                                               !.radius = o.com_line_width]]])

\* o.contact_style is the style just selected
updateContactStyle(o, t) ==
  LET n_contacts == Len(o.contact_billboard_line_)
      o1 == CASE o.contact_style = BILLBOARDS ->
                   [ResetFirst(o, "contact_manual_object_", 0, n_contacts)
                      EXCEPT !.contact_points_ = ClearRows(@)]
              [] o.contact_style = LINES ->
                   [ResetFirst(o, "contact_billboard_line_", 0, n_contacts)
                      EXCEPT !.contact_points_ = ClearRows(@)]
              [] o.contact_style = POINTS ->
                   ResetFirst(
                     ResetFirst(o, "contact_manual_object_", 0, n_contacts),
                     "contact_billboard_line_", 0, n_contacts)
  IN IF o1.is_info_ THEN processContactTrajectory(o1, t) ELSE o1

\* setLineWidth and setColor through every pointer of the container
RECURSIVE RestyleLines(_, _)
RestyleLines(o, i) ==
  IF i >= Len(o.contact_billboard_line_) THEN o
  ELSE IF o.contact_billboard_line_[i + 1] = Null
       THEN RestyleLines(Fault(o, "contact_billboard_line_[i]->setLineWidth"),
                         i + 1)
       ELSE RestyleLines(
              [o EXCEPT !.contact_billboard_line_[i + 1][1] =
                          Restyle(@, o.contact_line_width, o.contact_color)],
              i + 1)

\* setColor and setRadius through every pointer of one row
RestyleRow(o, row) ==
  [j \in DOMAIN row |->
     IF row[j] = Null THEN Null
     ELSE Ptr([row[j][1] EXCEPT !.color = o.contact_color,
                                !.radius = o.contact_line_width])]

updateContactLineProperties(o, t) ==
  CASE o.contact_style = BILLBOARDS -> RestyleLines(o, 0)
    [] o.contact_style = LINES ->
         IF o.is_info_ THEN processContactTrajectory(o, t) ELSE o
    [] o.contact_style = POINTS ->
         LET o1 == [o EXCEPT !.contact_points_ =
                      [i \in DOMAIN @ |-> RestyleRow(o, @[i])]]
         IN IF \E i \in DOMAIN o.contact_points_ :
                 \E j \in DOMAIN o.contact_points_[i] :
                    o.contact_points_[i][j] = Null
            THEN Fault(o1, "contact_points_[i][j]->setColor")
            ELSE o1

-----------------------------------------------------------------------------
(* Inputs *)

\* the values a property is moved between: the default and one other
ComColors == { [rgb |-> <<0, 85, 255>>, a |-> 100],
               [rgb |-> <<0, 255, 0>>, a |-> 50] }
ContactColors == { [rgb |-> <<255, 0, 127>>, a |-> 100],
                   [rgb |-> <<0, 255, 0>>, a |-> 50] }
LineWidths == {1, 2}
Scales == {1, 2}

\* what getTransform leaves in (position, orientation): on success the pose
\* of the frame; on failure the two locals, which the handler declares
\* without a value and uses whatever the result, hold any pose
Poses == { [position |-> Zero, orientation |-> IdentityQ],
           [position |-> <<10, 0, 0>>, orientation |-> <<0, 0, 1, 0>>] }
Transforms ==
  { [ok |-> b, position |-> p.position, orientation |-> p.orientation] :
      b \in BOOLEAN, p \in Poses }

\* last_point_position_ is not initialized by the constructor
Uninitialized == { Zero, <<NaN, NaN, NaN>>, <<-700, 300, 900>> }

WholeBodyState(com, ori, contacts) ==
  [com_position |-> com, base_orientation |-> ori, contacts |-> contacts]
ContactState(name, pos) == [name |-> name, position |-> pos]

\* sample values of the generated trajectories
ComAt(i) == <<0, 0, 100 * (i - 1)>>
PosOf(name, i) == IF name = "left_foot" THEN <<10, 5 * i, 0>>
                  ELSE <<-10, 5 * i, 0>>
ContactsOf(names, i) ==
  [k \in DOMAIN names |-> ContactState(names[k], PosOf(names[k], i))]
TrajectoryOf(namelists) ==
  [trajectory |-> [i \in DOMAIN namelists |->
      WholeBodyState(ComAt(i), IdentityQ, ContactsOf(namelists[i], i))]]

SeqsUpTo(S, n) == UNION { [1..k -> S] : k \in 0..n }

\* the messages of the event machine
Messages ==
  { [trajectory |-> << >>],
    TrajectoryOf(<< <<"left_foot">>, <<"left_foot", "right_foot">>,
                    <<"right_foot">> >>),
    TrajectoryOf(<< <<"right_foot">>, <<"left_foot">> >>),
    TrajectoryOf(<< <<"left_foot", "left_foot">> >>),
    [trajectory |-> << WholeBodyState(<<0, 0, 0>>, IdentityQ, << >>),
                       WholeBodyState(<<NaN, 0, 100>>, <<0, 0, Inf, 1>>, << >>),
                       WholeBodyState(<<0, 0, 200>>, <<0, 1, 0, 0>>, << >>) >>],
    [trajectory |-> << WholeBodyState(<<0, 0, 3>>, IdentityQ,
         << ContactState("left_foot", <<10, Inf, 0>>) >>) >>] }

-----------------------------------------------------------------------------
(* The state machine *)

\* the state the constructor leaves, but for the two styles and the scale
\* of the axes (the values a saved configuration sets)
Configured(com_style, contact_style, scale) ==
  /\ msg_ = Null
  /\ is_info_ = FALSE
  /\ com_enable_ = TRUE
  /\ contact_enable_ = TRUE
  /\ com_style_property_ = com_style
  /\ contact_style_property_ = contact_style
  /\ com_color_property_ = [rgb |-> <<0, 85, 255>>, a |-> 100]
  /\ contact_color_property_ = [rgb |-> <<255, 0, 127>>, a |-> 100]
  /\ com_line_width_property_ = 1
  /\ contact_line_width_property_ = 1
  /\ com_scale_property_ = scale
  /\ com_billboard_line_ = Null
  /\ com_manual_object_ = Null
  /\ com_points_ = << >>
  /\ com_axes_ = << >>
  /\ contact_billboard_line_ = << >>
  /\ contact_manual_object_ = << >>
  /\ contact_points_ = << >>
  /\ last_point_position_ \in Uninitialized
  /\ tf_ = Null
  /\ fault = {}
  /\ crashed = FALSE
  /\ lastEvent = "constructor"
  /\ n_events = 0

\* the state the constructor leaves, but for the two styles
Constructed(com_style, contact_style) == Configured(com_style, contact_style, 1)

\* the state the constructor leaves
Init == Constructed(BILLBOARDS, BILLBOARDS)

\* the event loop dispatches the next event
Running == ~crashed /\ n_events < MaxEvents

\* The handler named ev ran to its end and left the object o.  When it
\* executed an undefined operation the process may have been terminated.
Commit(o, ev) ==
  /\ msg_' = o.msg_
  /\ is_info_' = o.is_info_
  /\ com_enable_' = o.com_enable_
  /\ contact_enable_' = o.contact_enable_
  /\ com_style_property_' = o.com_style
  /\ contact_style_property_' = o.contact_style
  /\ com_color_property_' = o.com_color
  /\ contact_color_property_' = o.contact_color
  /\ com_line_width_property_' = o.com_line_width
  /\ contact_line_width_property_' = o.contact_line_width
  /\ com_scale_property_' = o.com_scale
  /\ com_billboard_line_' = o.com_billboard_line_
  /\ com_manual_object_' = o.com_manual_object_
  /\ com_points_' = o.com_points_
  /\ com_axes_' = o.com_axes_
  /\ contact_billboard_line_' = o.contact_billboard_line_
  /\ contact_manual_object_' = o.contact_manual_object_
  /\ contact_points_' = o.contact_points_
  /\ last_point_position_' = o.last_point_position_
  /\ tf_' = o.tf_
  /\ fault' = o.fault
  /\ crashed' \in (IF o.fault = {} THEN {FALSE} ELSE BOOLEAN)
  /\ lastEvent' = ev
  /\ n_events' = n_events + 1

ProcessMessage ==
  /\ Running
  /\ \E msg \in Messages, t \in Transforms :
       Commit(processMessage(This, msg, t), "processMessage")

FixedFrameChanged ==
  /\ Running
  /\ \E t \in Transforms :
       Commit(fixedFrameChanged(This, t), "fixedFrameChanged")

Reset ==
  /\ Running
  /\ Commit(reset(This), "reset")

\* A lookup repeated for the same header and fixed frame yields the same
\* pose; before the first message no handler looks anything up.
Lookup == IF tf_ = Null THEN [ok |-> FALSE, position |-> Zero,
                              orientation |-> IdentityQ]
          ELSE tf_[1]

UpdateCoMStyle ==
  /\ Running
  /\ \E style \in LineStyle \ {com_style_property_} :
       Commit(updateCoMStyle([This EXCEPT !.com_style = style], Lookup),
              "updateCoMStyle")

UpdateContactStyle ==
  /\ Running
  /\ \E style \in LineStyle \ {contact_style_property_} :
       Commit(updateContactStyle([This EXCEPT !.contact_style = style], Lookup),
              "updateContactStyle")

UpdateCoMEnable ==
  /\ Running
  /\ Commit(updateCoMEnable([This EXCEPT !.com_enable_ = ~com_enable_]),
            "updateCoMEnable")

UpdateContactEnable ==
  /\ Running
  /\ Commit(updateContactEnable(
              [This EXCEPT !.contact_enable_ = ~contact_enable_]),
            "updateContactEnable")

\* one of line width, colour (with alpha) and axes scale was changed
UpdateCoMLineProperties ==
  /\ Running
  /\ \/ \E c \in ComColors \ {com_color_property_} :
          Commit(updateCoMLineProperties([This EXCEPT !.com_color = c], Lookup),
                 "updateCoMLineProperties")
     \/ \E w \in LineWidths \ {com_line_width_property_} :
          Commit(updateCoMLineProperties(
                   [This EXCEPT !.com_line_width = w], Lookup),
                 "updateCoMLineProperties")
     \/ \E sc \in Scales \ {com_scale_property_} :
          Commit(updateCoMLineProperties([This EXCEPT !.com_scale = sc], Lookup),
                 "updateCoMLineProperties")

\* one of line width and colour (with alpha) was changed
UpdateContactLineProperties ==
  /\ Running
  /\ \/ \E c \in ContactColors \ {contact_color_property_} :
          Commit(updateContactLineProperties(
                   [This EXCEPT !.contact_color = c], Lookup),
                 "updateContactLineProperties")
     \/ \E w \in LineWidths \ {contact_line_width_property_} :
          Commit(updateContactLineProperties(
                   [This EXCEPT !.contact_line_width = w], Lookup),
                 "updateContactLineProperties")

Next ==
  \/ ProcessMessage
  \/ FixedFrameChanged
  \/ Reset
  \/ UpdateCoMStyle
  \/ UpdateContactStyle
  \/ UpdateCoMEnable
  \/ UpdateContactEnable
  \/ UpdateCoMLineProperties
  \/ UpdateContactLineProperties

Spec == Init /\ [][Next]_vars

-----------------------------------------------------------------------------
(* The first message, over every trajectory within the bounds *)

\* the contacts of one step: every list of at most MaxContacts names
NameLists == SeqsUpTo(Names, MaxContacts)

\* CoM samples: finite ones and ones with a non-finite component
ComSamples ==
  { WholeBodyState(p, q, << >>) :
      p \in { <<0, 0, 0>>, <<3, 0, 50>>, <<0, NaN, 7>> },
      q \in { <<0, 1, 0, 0>>, <<0, 0, Inf, 1>> } }

\* contact samples of one limb: finite ones and ones with a non-finite
\* component
LimbSamples ==
  { WholeBodyState(Zero, IdentityQ, << ContactState("left_foot", p) >>) :
      p \in { <<10, 0, 0>>, <<NaN, 4, 0>>, <<-10, 6, Inf>> } }

Trajectories ==
  { TrajectoryOf(nl) : nl \in SeqsUpTo(NameLists, MaxSteps) }
  \cup { [trajectory |-> tr] : tr \in SeqsUpTo(ComSamples, MaxSteps) }
  \cup { [trajectory |-> tr] : tr \in SeqsUpTo(LimbSamples, MaxSteps) }

\* the display as configured before the first message: both groups set to
\* one style
InitTraj == \E style \in LineStyle : Constructed(style, style)

FirstMessage ==
  /\ Running
  /\ ~is_info_
  /\ \E msg \in Trajectories, t \in Transforms :
       Commit(processMessage(This, msg, t), "processMessage")

NextTraj == FirstMessage

SpecTraj == InitTraj /\ [][NextTraj]_vars

-----------------------------------------------------------------------------
(* Messages along a line, for the density of the axes markers *)

\* CoM positions 0, 0.05, 0.10 and 0.12 m along x
AxesPositions == { <<0, 0, 0>>, <<5, 0, 0>>, <<10, 0, 0>>, <<12, 0, 0>> }

AxesTrajectories ==
  { [trajectory |-> [i \in DOMAIN ps |->
                       WholeBodyState(ps[i], IdentityQ, << >>)]] :
      ps \in SeqsUpTo(AxesPositions, MaxAxesSteps) }

InitAxes == \E scale \in Scales : Configured(BILLBOARDS, BILLBOARDS, scale)

\* the first message
AxesMessage ==
  /\ Running
  /\ ~is_info_
  /\ \E msg \in AxesTrajectories, t \in Transforms :
       Commit(processMessage(This, msg, t), "processMessage")

NextAxes == AxesMessage

SpecAxes == InitAxes /\ [][NextAxes]_vars

-----------------------------------------------------------------------------
(* Vocabulary of the properties *)

Trajectory == msg_[1].trajectory
NSteps == Len(Trajectory)

\* the contacts of the stored message, as (step, index) pairs
ContactSlots ==
  { <<i, k>> \in (1..NSteps) \X (1..(MaxContacts + 1)) :
      k <= Len(Trajectory[i].contacts) }

DistinctNames == { Trajectory[s[1]].contacts[s[2]].name : s \in ContactSlots }

\* the handler that ran last rebuilt the geometry of the group
CoMRebuilt ==
  /\ is_info_ /\ com_enable_
  /\ \/ lastEvent \in {"processMessage", "fixedFrameChanged", "updateCoMStyle"}
     \/ lastEvent = "updateCoMLineProperties" /\ com_style_property_ = LINES
ContactRebuilt ==
  /\ is_info_ /\ contact_enable_
  /\ \/ lastEvent \in {"processMessage", "fixedFrameChanged",
                       "updateContactStyle"}
     \/ /\ lastEvent = "updateContactLineProperties"
        /\ contact_style_property_ = LINES

\* the undefined operations of processContactTrajectory
ContactPassFaults ==
  fault \cap { "contact_billboard_line_[traj_id]",
               "contact_manual_object_[traj_id]",
               "contact_points_[i][contact_idx]",
               "contact_manual_object_[i]->end" }

\* the objects a container of pointers owns
Owned(ptrs) == { ptrs[k][1] : k \in { j \in DOMAIN ptrs : ptrs[j] # Null } }
Markers == UNION { Owned(contact_points_[i]) : i \in DOMAIN contact_points_ }

\* a group owns no drawable
CoMStripsEmpty ==
  com_billboard_line_ = Null /\ com_manual_object_ = Null /\ com_points_ = << >>
CoMGroupEmpty == CoMStripsEmpty /\ com_axes_ = << >>
ContactGroupEmpty ==
  /\ Owned(contact_billboard_line_) = {}
  /\ Owned(contact_manual_object_) = {}
  /\ Markers = {}

\* every drawable the display owns
Drawables ==
  Owned(<< com_billboard_line_ >>) \cup Owned(<< com_manual_object_ >>)
  \cup { com_points_[k] : k \in DOMAIN com_points_ }
  \cup { com_axes_[k] : k \in DOMAIN com_axes_ }
  \cup Owned(contact_billboard_line_) \cup Owned(contact_manual_object_)
  \cup Markers

\* what the selected style of a group draws with
CoMStrip ==
  IF com_style_property_ = BILLBOARDS THEN com_billboard_line_
  ELSE com_manual_object_
ContactStrips ==
  IF contact_style_property_ = BILLBOARDS THEN contact_billboard_line_
  ELSE contact_manual_object_

-----------------------------------------------------------------------------
(* C3 *)

\* C3: after a pass of processContactTrajectory the strip container of the
\* selected style (Billboard, Line) has as many slots as there are distinct
\* contact names in the trajectory, every slot holds a created primitive, and
\* both the counting loop and the final traj_id of the pass give that number.
C3_TrackCount ==
  (lastEvent = "processMessage" /\ contact_enable_) =>
    LET n == Cardinality(DistinctNames) IN
    /\ CountTracks(Trajectory, 1, 1, {}, 0) = n
    /\ ContactPass(This, tf_[1]).traj_id = n
    /\ contact_style_property_ \in {BILLBOARDS, LINES} =>
         /\ Len(ContactStrips) = n
         /\ \A k \in 1..n : ContactStrips[k] # Null
         /\ ContactPassFaults = {}

\* two names over two steps, one of them in both steps
C3_Witness ==
  /\ lastEvent = "processMessage" /\ contact_enable_
  /\ contact_style_property_ = LINES
  /\ NSteps = 2
  /\ Cardinality(ContactSlots) = 3
  /\ Cardinality(DistinctNames) = 2
  /\ Len(contact_manual_object_) = 2
  /\ \A k \in 1..2 : contact_manual_object_[k] # Null

-----------------------------------------------------------------------------
(* C9 *)

\* what the specification asks of a sanitized position and orientation
C9_Position(p) == IF \A k \in 1..3 : p[k] \notin NonFinite THEN p ELSE <<0, 0, 0>>
C9_Orientation(q) ==
  IF \A k \in 1..4 : q[k] \notin NonFinite THEN q ELSE <<0, 0, 0, 1>>

\* the vertices the CoM samples must give
C9_CoMVertex(i) == Transform(tf_[1], C9_Position(Trajectory[i].com_position))

\* the vertices the contact samples may give
C9_ContactVertices ==
  { Transform(tf_[1], C9_Position(Trajectory[s[1]].contacts[s[2]].position)) :
      s \in ContactSlots }

\* every step holds exactly one contact, of the same limb
C9_OneLimb ==
  /\ \A i \in 1..NSteps : Len(Trajectory[i].contacts) = 1
  /\ Cardinality(DistinctNames) = 1

\* C9: after a rebuild every CoM sample contributes one vertex (one marker in
\* Point style), equal to the transformed position when the position is
\* finite and to the transformed zero vector when it is not; a non-finite base
\* orientation is replaced by (0,0,0,1); every contact vertex is the
\* transformed sanitized position of a contact sample, one per step for a
\* limb present alone in every step; sanitizing twice equals sanitizing once.
C9_Sanitized ==
  (lastEvent = "processMessage" /\ com_enable_ /\ contact_enable_) =>
    /\ fault = {} /\ com_style_property_ \in {BILLBOARDS, LINES} /\ NSteps > 0 =>
         /\ CoMStrip # Null
         /\ Len(CoMStrip[1].pts) = NSteps
         /\ \A i \in 1..NSteps : CoMStrip[1].pts[i].p = C9_CoMVertex(i)
    /\ com_style_property_ = POINTS =>
         /\ Len(com_points_) = NSteps
         /\ \A i \in 1..NSteps :
              com_points_[i].point = C9_Position(Trajectory[i].com_position)
    /\ \A k \in DOMAIN com_axes_ : \E i \in 1..NSteps :
         /\ com_axes_[k].position = C9_CoMVertex(i)
         /\ com_axes_[k].orientation =
              QMul(C9_Orientation(Trajectory[i].base_orientation),
                   tf_[1].orientation)
    /\ \A k \in DOMAIN contact_billboard_line_ :
         \A obj \in Owned(<< contact_billboard_line_[k] >>) :
            \A j \in DOMAIN obj.pts : obj.pts[j].p \in C9_ContactVertices
    /\ \A k \in DOMAIN contact_manual_object_ :
         \A obj \in Owned(<< contact_manual_object_[k] >>) :
            \A j \in DOMAIN obj.pts : obj.pts[j].p \in C9_ContactVertices
    /\ \A m \in Markers : m.point \in C9_ContactVertices
    /\ (C9_OneLimb /\ NSteps > 0
          /\ contact_style_property_ \in {BILLBOARDS, LINES}) =>
         /\ Len(ContactStrips) = 1
         /\ Len(ContactStrips[1][1].pts) = NSteps
         /\ \A i \in 1..NSteps :
              ContactStrips[1][1].pts[i].p =
                Transform(tf_[1],
                          C9_Position(Trajectory[i].contacts[1].position))
    /\ \A i \in 1..NSteps :
         LET p == Trajectory[i].com_position
             q == Trajectory[i].base_orientation IN
         /\ SanitizePosition(p) = C9_Position(p)
         /\ SanitizePosition(SanitizePosition(p)) = SanitizePosition(p)
         /\ SanitizeOrientation(q) = C9_Orientation(q)
         /\ SanitizeOrientation(SanitizeOrientation(q)) = SanitizeOrientation(q)

\* a finite sample followed by one with a non-finite y, identity transform
C9_Witness ==
  /\ lastEvent = "processMessage" /\ com_enable_
  /\ com_style_property_ = BILLBOARDS
  /\ tf_[1].position = Zero /\ tf_[1].orientation = IdentityQ
  /\ NSteps = 2
  /\ Trajectory[1].com_position = <<3, 0, 50>>
  /\ Trajectory[2].com_position = <<0, NaN, 7>>
  /\ com_billboard_line_ # Null
  /\ Len(com_billboard_line_[1].pts) = 2
  /\ com_billboard_line_[1].pts[1].p = <<3, 0, 50>>
  /\ com_billboard_line_[1].pts[2].p = <<0, 0, 0>>

-----------------------------------------------------------------------------
(* C1 *)

\* the reference position of a pass that no marker precedes: farther than
\* the threshold from every sample
C1_NoPrevious == <<Inf, Inf, Inf>>

\* a build of the message msg under the transform t that starts from no
\* drawable and is preceded by no marker
C1_Build(msg, t) ==
  processContactTrajectory(
    processCoMTrajectory(
      [destroyObjects(This) EXCEPT !.msg_ = msg, !.is_info_ = TRUE,
                                   !.last_point_position_ = C1_NoPrevious],
      t),
    t)

\* C1: after processMessage a message is stored, the state is Populated, no
\* drawable that existed before the event is left, and the drawables are
\* those of a build from the new message alone, in which no marker of an
\* earlier pass precedes the first sample.  Stated for the messages that
\* arrive while axes markers of an earlier pass are shown.
C1_OnMessage ==
  [][(lastEvent' = "processMessage" /\ com_axes_ # << >>) =>
       /\ msg_' # Null
       /\ is_info_'
       /\ \A d \in Drawables' : d.fresh
       /\ LET o == C1_Build(msg_', tf_'[1]) IN
          /\ com_billboard_line_' = o.com_billboard_line_
          /\ com_manual_object_' = o.com_manual_object_
          /\ com_points_' = o.com_points_
          /\ com_axes_' = o.com_axes_
          /\ contact_billboard_line_' = o.contact_billboard_line_
          /\ contact_manual_object_' = o.contact_manual_object_
          /\ contact_points_' = o.contact_points_]_vars

-----------------------------------------------------------------------------
(* C2 *)

\* step i holds a contact named N
C2_Present(N, i) ==
  \E k \in DOMAIN Trajectory[i].contacts : Trajectory[i].contacts[k].name = N

\* N's own sanitized, transformed position at step i (its last entry there)
C2_OwnPoint(N, i) ==
  LET contacts == Trajectory[i].contacts
      last == CHOOSE k \in DOMAIN contacts :
                /\ contacts[k].name = N
                /\ \A j \in DOMAIN contacts : contacts[j].name = N => j <= k
  IN Transform(tf_[1], C9_Position(contacts[last].position))

\* the points of N's track: one per step holding N, in step order
RECURSIVE C2_OwnPoints(_, _)
C2_OwnPoints(N, i) ==
  IF i > NSteps THEN << >>
  ELSE (IF C2_Present(N, i) THEN << C2_OwnPoint(N, i) >> ELSE << >>)
       \o C2_OwnPoints(N, i + 1)

C2_Vertices(ptr) == [j \in DOMAIN ptr[1].pts |-> ptr[1].pts[j].p]

C2_Scenario ==
  TrajectoryOf(<< <<"left_foot">>, <<"left_foot", "right_foot">>,
                  <<"right_foot">> >>)

\* C2: after a rebuild in Billboard or Line style there is one track per
\* contact name, holding exactly the name's own points of the steps it is
\* present in, in step order; with left_foot in steps 0-1 and right_foot in
\* steps 1-2, in Line style, both line strips have 2 vertices.
C2_OwnTrack ==
  (ContactRebuilt /\ contact_style_property_ \in {BILLBOARDS, LINES}) =>
    /\ Len(ContactStrips) = Cardinality(DistinctNames)
    /\ \A k \in DOMAIN ContactStrips : ContactStrips[k] # Null
    /\ { C2_Vertices(ContactStrips[k]) : k \in DOMAIN ContactStrips }
         = { C2_OwnPoints(N, 1) : N \in DistinctNames }
    /\ (msg_ = Ptr(C2_Scenario) /\ contact_style_property_ = LINES) =>
         \A k \in DOMAIN contact_manual_object_ :
            Len(contact_manual_object_[k][1].pts) = 2

-----------------------------------------------------------------------------
(* C4 *)

\* C4: after a style change of a group no primitive of the two styles that
\* are not selected is left in that group.
C4_NoLeak ==
  /\ lastEvent = "updateCoMStyle" =>
       /\ com_style_property_ # BILLBOARDS => com_billboard_line_ = Null
       /\ com_style_property_ # LINES => com_manual_object_ = Null
       /\ com_style_property_ # POINTS => com_points_ = << >>
  /\ lastEvent = "updateContactStyle" =>
       /\ contact_style_property_ # BILLBOARDS =>
            Owned(contact_billboard_line_) = {}
       /\ contact_style_property_ # LINES =>
            Owned(contact_manual_object_) = {}
       /\ contact_style_property_ # POINTS => Markers = {}

-----------------------------------------------------------------------------
(* C5 *)

\* C5: a disabled group owns no drawable, right after the disable event and
\* after every later event: the CoM group no strip, line strip, point marker
\* or axes marker, the contact group no strip, line strip or point marker.
C5_DisabledOwnsNothing ==
  /\ ~com_enable_ => CoMGroupEmpty
  /\ ~contact_enable_ => ContactGroupEmpty

-----------------------------------------------------------------------------
(* C6 *)

\* the number of vertices or markers the selected style of the CoM group shows
C6_CoMPointCount ==
  IF com_style_property_ = POINTS THEN Len(com_points_)
  ELSE IF CoMStrip = Null THEN 0 ELSE Len(CoMStrip[1].pts)

\* C6: after a group is enabled again in state Populated it shows the
\* geometry of a build of the stored message: one CoM vertex (marker) per
\* step in the current colour, one contact strip per contact name (markers
\* whenever the message holds a contact, in Point style).
C6_ReenableRebuilds ==
  /\ (lastEvent = "updateCoMEnable" /\ com_enable_ /\ is_info_) =>
       C6_CoMPointCount = NSteps
  /\ (lastEvent = "updateContactEnable" /\ contact_enable_ /\ is_info_) =>
       IF contact_style_property_ = POINTS
       THEN (Markers = {}) <=> (ContactSlots = {})
       ELSE Cardinality(Owned(ContactStrips)) = Cardinality(DistinctNames)

-----------------------------------------------------------------------------
(* C7 *)

\* C7: after reset no group owns a drawable, no message is stored and the
\* state is Empty.
C7_ResetClears ==
  lastEvent = "reset" =>
    /\ CoMGroupEmpty
    /\ ContactGroupEmpty
    /\ msg_ = Null
    /\ ~is_info_

-----------------------------------------------------------------------------
(* C8 *)

\* C8: a rebuild from a trajectory without steps, or of the contacts of a
\* trajectory without contacts, applies no operation to a primitive that was
\* not created and leaves the group without strip, line strip and marker.
C8_Degenerate ==
  /\ (CoMRebuilt /\ NSteps = 0) =>
       /\ "com_manual_object_->end" \notin fault
       /\ CoMStripsEmpty
  /\ (ContactRebuilt /\ ContactSlots = {}) =>
       /\ ContactPassFaults = {}
       /\ ContactGroupEmpty

-----------------------------------------------------------------------------
(* C10 *)

C10_Post ==
  /\ Len(com_axes_) > 0
  /\ com_axes_[1].position = C9_CoMVertex(1)

\* C10: every rebuild of the CoM geometry from a trajectory with at least one
\* step leaves an axes marker at the first sample of the pass, wherever the
\* last marker of the previous pass was placed.  Stated for the rebuilds that
\* follow a pass which placed a marker.
C10_FirstSampleEmits ==
  [][(CoMRebuilt' /\ NSteps' > 0 /\ com_axes_ # << >>) => C10_Post']_vars

-----------------------------------------------------------------------------
(* C11 *)

\* the squared distance of two finite points
C11_SqDist(a, b) ==
  (a[1] - b[1]) * (a[1] - b[1]) + (a[2] - b[2]) * (a[2] - b[2])
  + (a[3] - b[3]) * (a[3] - b[3])

\* the squared distance of a and b is a number and is at least threshold
C11_AtLeast(a, b, threshold) ==
  /\ \A k \in 1..3 : a[k] \notin NonFinite /\ b[k] \notin NonFinite
  /\ C11_SqDist(a, b) >= threshold

\* the points of a pass that are retained, given the last retained one
RECURSIVE C11_Retained(_, _, _, _)
C11_Retained(points, i, last, threshold) ==
  IF i > Len(points) THEN << >>
  ELSE IF C11_AtLeast(points[i], last, threshold)
       THEN << points[i] >> \o C11_Retained(points, i + 1, points[i], threshold)
       ELSE C11_Retained(points, i + 1, last, threshold)

\* the transformed sanitized CoM positions of a message
C11_Points(msg, t) ==
  [i \in DOMAIN msg.trajectory |->
     Transform(t, C9_Position(msg.trajectory[i].com_position))]

\* C11: in one CoM pass a marker is placed at a sample iff the squared
\* distance of its transformed position to the previously retained marker is
\* at least scale*scale*0.0032; the reference moves only to a retained
\* marker, so consecutive markers of a pass are at least that far apart; with
\* scale 1 and reference (0,0,0) a sample at (0.1,0,0) gets a marker and one
\* at (0.05,0,0) gets none.
C11_Downsampling ==
  [][(lastEvent' = "processMessage" /\ com_enable_') =>
       LET points == C11_Points(msg_'[1], tf_'[1])
           threshold == com_scale_property_' * com_scale_property_' * 32
           kept == C11_Retained(points, 1, last_point_position_, threshold)
       IN /\ Len(com_axes_') = Len(kept)
          /\ \A k \in DOMAIN kept : com_axes_'[k].position = kept[k]
          /\ last_point_position_' =
               IF kept = << >> THEN last_point_position_ ELSE kept[Len(kept)]
          /\ \A k \in 1..(Len(kept) - 1) :
               C11_SqDist(kept[k], kept[k + 1]) >= threshold
          /\ (com_scale_property_' = 1 /\ last_point_position_ = <<0, 0, 0>>
                /\ Len(points) > 0) =>
               /\ points[1] = <<10, 0, 0>> =>
                    /\ Len(com_axes_') > 0
                    /\ com_axes_'[1].position = <<10, 0, 0>>
               /\ points = << <<5, 0, 0>> >> => com_axes_' = << >>]_vars

\* samples at 0, 0.05 and 0.10 m: the one at 0.05 m is skipped and the one at
\* 0.10 m is measured from the marker at 0
C11_Witness ==
  /\ lastEvent = "processMessage" /\ com_enable_
  /\ com_scale_property_ = 1
  /\ tf_[1].position = Zero /\ tf_[1].orientation = IdentityQ
  /\ NSteps = 3
  /\ Trajectory[1].com_position = <<0, 0, 0>>
  /\ Trajectory[2].com_position = <<5, 0, 0>>
  /\ Trajectory[3].com_position = <<10, 0, 0>>
  /\ Len(com_axes_) = 2
  /\ com_axes_[1].position = <<0, 0, 0>>
  /\ com_axes_[2].position = <<10, 0, 0>>

-----------------------------------------------------------------------------
(* C12 *)

\* the numbers of live strips, line strips and point markers of the two
\* groups of an object
C12_Counts(o) ==
  LET live(ptrs) == Cardinality({ k \in DOMAIN ptrs : ptrs[k] # Null }) IN
  << Len(o.com_billboard_line_), Len(o.com_manual_object_), Len(o.com_points_),
     live(o.contact_billboard_line_), live(o.contact_manual_object_),
     Cardinality({ <<i, j>> \in (DOMAIN o.contact_points_) \X (1..(MaxContacts + 1)) :
                     /\ j \in DOMAIN o.contact_points_[i]
                     /\ o.contact_points_[i][j] # Null }) >>

\* C12: a frame change in state Empty builds nothing; in state Populated it
\* leaves, after any number of frame changes, as many live strips, line
\* strips and point markers in each group as the build of the stored message
\* under the current configuration does, and none that existed before the
\* event.
C12_FrameChange ==
  lastEvent = "fixedFrameChanged" =>
    IF ~is_info_ THEN Drawables = {}
    ELSE /\ C12_Counts(This) = C12_Counts(C1_Build(msg_, tf_[1]))
         /\ \A d \in Drawables \ { com_axes_[k] : k \in DOMAIN com_axes_ } :
              d.fresh

-----------------------------------------------------------------------------
(* C13 *)

\* a strip that existed before the event, with another colour and width
C13_Strip(strip, color, line_width) ==
  [pts |-> [k \in DOMAIN strip.pts |-> [p |-> strip.pts[k].p, c |-> color]],
   max |-> strip.max, width |-> line_width, fresh |-> FALSE]

\* a point marker that existed before the event, with another colour and
\* radius
C13_Marker(m, color, radius) ==
  [color |-> color, radius |-> radius, point |-> m.point,
   frame_position |-> m.frame_position,
   frame_orientation |-> m.frame_orientation, fresh |-> FALSE]

\* the build of the stored message by an object o, from no drawable
C13_Build(o, t) ==
  processContactTrajectory(processCoMTrajectory(destroyObjects(o), t), t)

\* the object with the configuration that holds after the event
C13_After ==
  [This EXCEPT !.com_color = com_color_property_',
               !.contact_color = contact_color_property_',
               !.com_line_width = com_line_width_property_',
               !.contact_line_width = contact_line_width_property_',
               !.com_scale = com_scale_property_']

C13_CoM ==
  CASE com_style_property_ = BILLBOARDS ->
         /\ com_billboard_line_' =
              [k \in DOMAIN com_billboard_line_ |->
                 C13_Strip(com_billboard_line_[k], com_color_property_',
                           com_line_width_property_')]
         /\ com_manual_object_' = AgePtr(com_manual_object_)
         /\ com_points_' = AgePtr(com_points_)
    [] com_style_property_ = POINTS ->
         /\ com_points_' =
              [k \in DOMAIN com_points_ |->
                 C13_Marker(com_points_[k], com_color_property_',
                            com_line_width_property_')]
         /\ com_billboard_line_' = AgePtr(com_billboard_line_)
         /\ com_manual_object_' = AgePtr(com_manual_object_)
    [] com_style_property_ = LINES ->
         /\ com_billboard_line_' = AgePtr(com_billboard_line_)
         /\ com_points_' = AgePtr(com_points_)
         /\ IF is_info_ /\ com_enable_
            THEN com_manual_object_' =
                   C13_Build(C13_After, tf_[1]).com_manual_object_
            ELSE com_manual_object_' = AgePtr(com_manual_object_)

C13_Contact ==
  CASE contact_style_property_ = BILLBOARDS ->
         /\ contact_billboard_line_' =
              [k \in DOMAIN contact_billboard_line_ |->
                 [j \in DOMAIN contact_billboard_line_[k] |->
                    C13_Strip(contact_billboard_line_[k][j],
                              contact_color_property_',
                              contact_line_width_property_')]]
         /\ contact_manual_object_' = AgePtrs(contact_manual_object_)
         /\ contact_points_' = AgeRows(contact_points_)
    [] contact_style_property_ = POINTS ->
         /\ contact_points_' =
              [i \in DOMAIN contact_points_ |->
                 [j \in DOMAIN contact_points_[i] |->
                    [k \in DOMAIN contact_points_[i][j] |->
                       C13_Marker(contact_points_[i][j][k],
                                  contact_color_property_',
                                  contact_line_width_property_')]]]
         /\ contact_billboard_line_' = AgePtrs(contact_billboard_line_)
         /\ contact_manual_object_' = AgePtrs(contact_manual_object_)
    [] contact_style_property_ = LINES ->
         /\ contact_billboard_line_' = AgePtrs(contact_billboard_line_)
         /\ contact_points_' = AgeRows(contact_points_)
         /\ IF is_info_ /\ contact_enable_
            THEN contact_manual_object_' =
                   C13_Build(C13_After, tf_[1]).contact_manual_object_
            ELSE contact_manual_object_' = AgePtrs(contact_manual_object_)

\* C13: a change of colour, width or scale of a group in Billboard or Point
\* style creates and destroys no strip, line strip or point marker of the
\* group and gives every strip (point marker) of it the current colour and
\* width (radius); in Line style and state Populated the line strips of an
\* enabled group are those of a build of the stored message with the current
\* colour, and in state Empty nothing is built.
C13_PropertyChange ==
  [][/\ lastEvent' = "updateCoMLineProperties" => C13_CoM
     /\ lastEvent' = "updateContactLineProperties" => C13_Contact]_vars

\* a CoM strip recoloured in place, and a contact line strip built again
C13_Witness ==
  \/ /\ lastEvent = "updateCoMLineProperties"
     /\ com_style_property_ = BILLBOARDS
     /\ com_color_property_.a = 50
     /\ com_billboard_line_ # Null
     /\ ~com_billboard_line_[1].fresh
     /\ Len(com_billboard_line_[1].pts) = 3
     /\ \A k \in 1..3 : com_billboard_line_[1].pts[k].c = com_color_property_
  \/ /\ lastEvent = "updateContactLineProperties"
     /\ contact_style_property_ = LINES
     /\ contact_color_property_.a = 50
     /\ Len(contact_manual_object_) = 2
     /\ \A k \in 1..2 :
          /\ contact_manual_object_[k] # Null
          /\ contact_manual_object_[k][1].fresh
          /\ contact_manual_object_[k][1].pts[1].c = contact_color_property_

-----------------------------------------------------------------------------
(* C14 *)

\* the drawables of the selected styles of an object
C14_Selected(o) ==
  << IF o.com_enable_
     THEN CASE o.com_style = BILLBOARDS -> o.com_billboard_line_
            [] o.com_style = LINES -> o.com_manual_object_
            [] o.com_style = POINTS -> o.com_points_
     ELSE << >>,
     IF o.contact_enable_
     THEN CASE o.contact_style = BILLBOARDS -> o.contact_billboard_line_
            [] o.contact_style = LINES -> o.contact_manual_object_
            [] o.contact_style = POINTS -> o.contact_points_
     ELSE << >> >>

\* the primitives of the selected styles and their numbers of points
C14_Shape(o) ==
  LET sel == C14_Selected(o) IN
  << IF o.com_style = POINTS THEN Len(sel[1])
     ELSE [k \in DOMAIN sel[1] |-> Len(sel[1][k].pts)],
     IF o.contact_style = POINTS
     THEN [i \in DOMAIN sel[2] |-> [j \in DOMAIN sel[2][i] |-> Len(sel[2][i][j])]]
     ELSE [k \in DOMAIN sel[2] |->
             [j \in DOMAIN sel[2][k] |-> Len(sel[2][k][j].pts)]] >>

\* the transform under which a world point is the local point
C14_Identity == [position |-> <<0, 0, 0>>, orientation |-> <<0, 0, 0, 1>>]

\* the rebuild reached its end and made the primitives, with the numbers of
\* points, that it makes when the lookup succeeds
C14_Completes ==
  (lastEvent \in {"processMessage", "fixedFrameChanged"} /\ is_info_
     /\ ~tf_[1].ok) =>
    \A t \in Transforms :
      t.ok => C14_Shape(This) = C14_Shape(C13_Build(This, t))

\* C14: a rebuild whose transform lookup fails runs to its end, makes the
\* primitives and numbers of points of a rebuild whose lookup succeeds, and
\* places every sample as the identity transform does.
C14_LookupFailure ==
  /\ C14_Completes
  /\ (lastEvent \in {"processMessage", "fixedFrameChanged"} /\ is_info_
        /\ ~tf_[1].ok) =>
       LET o == C13_Build(This, C14_Identity)
           age(sel) == << AgePtr(sel[1]),
                          IF contact_style_property_ = POINTS
                          THEN AgeRows(sel[2]) ELSE AgePtrs(sel[2]) >>
       IN age(C14_Selected(This)) = age(C14_Selected(o))

-----------------------------------------------------------------------------
(* C15 *)

\* slot a comes before slot b: earlier step, or same step and smaller index
C15_Before(a, b) == a[1] < b[1] \/ (a[1] = b[1] /\ a[2] < b[2])

\* the slot of the first appearance of the name N
C15_First(N) ==
  CHOOSE a \in ContactSlots :
    /\ Trajectory[a[1]].contacts[a[2]].name = N
    /\ \A b \in ContactSlots :
         Trajectory[b[1]].contacts[b[2]].name = N => ~C15_Before(b, a)

\* ids in the order of first appearance
C15_Ids ==
  [N \in DistinctNames |->
     Cardinality({ M \in DistinctNames :
                     C15_Before(C15_First(M), C15_First(N)) })]

\* C15: a pass of processContactTrajectory gives the contact names the ids
\* 0, 1, 2, ... in the order of their first appearance (steps in order,
\* contacts in array order), one id per name and no id to two names; the
\* mapping starts empty at each pass, so a pass over the display that a pass
\* has already drawn, under any transform, yields the same mapping.
C15_TrackIds ==
  (is_info_ /\ contact_enable_) =>
    LET ids == ContactPass(destroyObjects(This), tf_[1]).contact_traj_id IN
    /\ ids = C15_Ids
    /\ DOMAIN ids = DistinctNames
    /\ { ids[N] : N \in DOMAIN ids } = 0..(Cardinality(DistinctNames) - 1)
    /\ \A N, M \in DOMAIN ids : ids[N] = ids[M] => N = M
    /\ \A t \in Transforms : ContactPass(This, t).contact_traj_id = ids

\* right_foot appears first and left_foot second, in Line style
C15_Witness ==
  /\ lastEvent = "processMessage" /\ contact_enable_
  /\ contact_style_property_ = LINES
  /\ tf_[1].position = Zero /\ tf_[1].orientation = IdentityQ
  /\ NSteps = 2
  /\ Len(Trajectory[1].contacts) = 1
  /\ Trajectory[1].contacts[1].name = "right_foot"
  /\ Len(Trajectory[2].contacts) = 2
  /\ Trajectory[2].contacts[1].name = "left_foot"
  /\ Trajectory[2].contacts[2].name = "right_foot"
  /\ ContactPass(This, tf_[1]).contact_traj_id =
       [N \in Names |-> IF N = "right_foot" THEN 0 ELSE 1]
  /\ Len(contact_manual_object_) = 2
  /\ contact_manual_object_[1][1].pts[1].p = <<-10, 5, 0>>
  /\ contact_manual_object_[2][1].pts[1].p = <<10, 10, 0>>

-----------------------------------------------------------------------------
(* C16 *)

\* C16: a style change of the CoM group creates, destroys and modifies no
\* contact drawable; a style change of the contact group creates, destroys
\* and modifies no CoM strip, line strip, point marker or axes marker; in
\* state Empty a style change builds nothing.
C16_GroupLocal ==
  [][/\ lastEvent' = "updateCoMStyle" =>
          /\ contact_billboard_line_' = AgePtrs(contact_billboard_line_)
          /\ contact_manual_object_' = AgePtrs(contact_manual_object_)
          /\ contact_points_' = AgeRows(contact_points_)
     /\ lastEvent' = "updateContactStyle" =>
          /\ com_billboard_line_' = AgePtr(com_billboard_line_)
          /\ com_manual_object_' = AgePtr(com_manual_object_)
          /\ com_points_' = AgePtr(com_points_)
          /\ com_axes_' = AgePtr(com_axes_)
     /\ (lastEvent' \in {"updateCoMStyle", "updateContactStyle"}
           /\ ~is_info_) => Drawables' = {}]_vars

\* a CoM style change in state Populated: the CoM line strip is new, the
\* contact strips are the ones that were there
C16_Witness ==
  /\ lastEvent = "updateCoMStyle"
  /\ is_info_ /\ com_enable_ /\ contact_enable_
  /\ com_style_property_ = LINES
  /\ com_manual_object_ # Null
  /\ com_manual_object_[1].fresh
  /\ contact_style_property_ = BILLBOARDS
  /\ Len(contact_billboard_line_) = 2
  /\ \A k \in 1..2 :
       /\ contact_billboard_line_[k] # Null
       /\ ~contact_billboard_line_[k][1].fresh

-----------------------------------------------------------------------------
(* C17 *)

\* the name N appeared in a step up to step i
C17_Assigned(N, i) == \E j \in 1..i : C2_Present(N, j)

\* the array index (from 0) at which N most recently appeared up to step i
C17_LastIndex(N, i) ==
  LET j == CHOOSE a \in 1..i :
             /\ C2_Present(N, a)
             /\ \A b \in 1..i : C2_Present(N, b) => b <= a
      contacts == Trajectory[j].contacts
      k == CHOOSE a \in DOMAIN contacts :
             /\ contacts[a].name = N
             /\ \A b \in DOMAIN contacts : contacts[b].name = N => b <= a
  IN k - 1

\* the track of N has a point at step i
C17_HasPoint(N, i) ==
  C17_Assigned(N, i) /\ C17_LastIndex(N, i) < Len(Trajectory[i].contacts)

\* that point: the contact stored at the index, whatever its name
C17_Point(N, i) ==
  Transform(tf_[1],
    C9_Position(Trajectory[i].contacts[C17_LastIndex(N, i) + 1].position))

RECURSIVE C17_Track(_, _)
C17_Track(N, i) ==
  IF i > NSteps THEN << >>
  ELSE (IF C17_HasPoint(N, i) THEN << C17_Point(N, i) >> ELSE << >>)
       \o C17_Track(N, i + 1)

\* the points of step i, by track in the order of the names
RECURSIVE C17_Row(_, _)
C17_Row(i, j) ==
  IF j > Len(NameOrder) THEN << >>
  ELSE (IF NameOrder[j] \in DistinctNames /\ C17_HasPoint(NameOrder[j], i)
        THEN << C17_Point(NameOrder[j], i) >> ELSE << >>)
       \o C17_Row(i, j + 1)

\* C17: in a contact pass, at step i every track assigned so far gets a point
\* iff its last-known array index (the index at which its name most recently
\* appeared in a step up to i) is smaller than the number of contacts of step
\* i; the point is the contact stored at that index of step i; a track whose
\* index is out of range gets none at that step.
C17_PlottingRule ==
  (lastEvent = "processMessage" /\ contact_enable_) =>
    /\ contact_style_property_ \in {BILLBOARDS, LINES} =>
         /\ Len(ContactStrips) = Cardinality(DistinctNames)
         /\ \A N \in DistinctNames :
              C2_Vertices(ContactStrips[C15_Ids[N] + 1]) = C17_Track(N, 1)
    /\ contact_style_property_ = POINTS =>
         /\ Len(contact_points_) = NSteps
         /\ \A i \in 1..NSteps :
              LET row == C17_Row(i, 1) IN
              \A j \in DOMAIN contact_points_[i] :
                IF j <= Len(row)
                THEN /\ contact_points_[i][j] # Null
                     /\ contact_points_[i][j][1].point = row[j]
                ELSE contact_points_[i][j] = Null

\* right_foot alone, then left_foot alone: the track of right_foot gets the
\* contact stored at index 0 of the second step
C17_Witness ==
  /\ lastEvent = "processMessage" /\ contact_enable_
  /\ contact_style_property_ = BILLBOARDS
  /\ tf_[1].position = Zero /\ tf_[1].orientation = IdentityQ
  /\ NSteps = 2
  /\ Len(Trajectory[1].contacts) = 1
  /\ Trajectory[1].contacts[1].name = "right_foot"
  /\ Len(Trajectory[2].contacts) = 1
  /\ Trajectory[2].contacts[1].name = "left_foot"
  /\ Len(contact_billboard_line_) = 2
  /\ C2_Vertices(contact_billboard_line_[1]) = << <<-10, 5, 0>>, <<10, 10, 0>> >>
  /\ C2_Vertices(contact_billboard_line_[2]) = << <<10, 10, 0>> >>

-----------------------------------------------------------------------------
(* C18 *)

\* C18: in Point style of the contact group the markers made for a step are
\* never more than the slots of the step's row (the number of contacts of the
\* step), so that every write contact_points_[i][contact_idx] is inside the
\* row, and after the pass every slot of every row holds a marker.
C18_RowsFilled ==
  (ContactRebuilt /\ contact_style_property_ = POINTS) =>
    /\ "contact_points_[i][contact_idx]" \notin fault
    /\ \A i \in 1..NSteps : Len(C17_Row(i, 1)) <= Len(Trajectory[i].contacts)
    /\ \A i \in DOMAIN contact_points_ :
         \A j \in DOMAIN contact_points_[i] : contact_points_[i][j] # Null

-----------------------------------------------------------------------------
(* C19 *)

\* C19: in updateContactStyle every access contact_manual_object_[i] and
\* contact_billboard_line_[i] uses an index smaller than the size of the
\* container it indexes.
C19_IndicesInRange ==
  lastEvent = "updateContactStyle" =>
    /\ "contact_manual_object_[i]" \notin fault
    /\ "contact_billboard_line_[i]" \notin fault

-----------------------------------------------------------------------------
(* C20 *)

\* C20: a property change never applies setColor, setLineWidth or setRadius
\* through a pointer that owns no drawable: not to an unset CoM strip, not to
\* an unset entry of the contact strips, not to an unset slot of the contact
\* markers.
C20_PropertyChangeSafe ==
  lastEvent \in {"updateCoMLineProperties", "updateContactLineProperties"} =>
    /\ "com_billboard_line_->setLineWidth" \notin fault
    /\ "contact_billboard_line_[i]->setLineWidth" \notin fault
    /\ "contact_points_[i][j]->setColor" \notin fault

-----------------------------------------------------------------------------
(* C21 *)

\* the representations of the CoM group that hold geometry
C21_Populated ==
  (IF com_billboard_line_ # Null THEN {BILLBOARDS} ELSE {})
  \cup (IF com_manual_object_ # Null THEN {LINES} ELSE {})
  \cup (IF com_points_ # << >> THEN {POINTS} ELSE {})

\* C21: in every reachable state at most one of the billboard strip, the
\* line strip and the point markers of the CoM group is populated, and the
\* one that is populated is the representation of the selected style.
C21_OneRepresentation ==
  /\ Cardinality(C21_Populated) <= 1
  /\ C21_Populated \subseteq {com_style_property_}

\* the style went from Billboards to Points in state Populated: the markers
\* are there and the strip is gone
C21_Witness ==
  /\ lastEvent = "updateCoMStyle"
  /\ is_info_ /\ com_enable_
  /\ com_style_property_ = POINTS
  /\ NSteps = 3
  /\ Len(com_points_) = 3
  /\ \A k \in 1..3 : com_points_[k].fresh
  /\ com_billboard_line_ = Null
  /\ com_manual_object_ = Null

-----------------------------------------------------------------------------
(* C22 *)

\* no pass read the message through a pointer that holds none, a message is
\* stored whenever is_info_ is set, and nothing is drawn before a message
C22_State ==
  /\ "msg_->" \notin fault
  /\ is_info_ => msg_ # Null
  /\ ~is_info_ => Drawables = {}

\* is_info_ is set by processMessage only, together with the message, and
\* is never cleared; while it is not set no handler draws anything
C22_Step ==
  /\ (~is_info_ /\ is_info_') =>
       /\ lastEvent' = "processMessage"
       /\ msg_' # Null
  /\ (~is_info_ /\ lastEvent' # "processMessage") =>
       /\ ~is_info_'
       /\ msg_' = Null
       /\ Drawables' = {}
       /\ last_point_position_' = last_point_position_

\* C22: the stored message is never read before one was received: the two
\* passes run only when is_info_ is set, is_info_ is set only by
\* processMessage once msg_ is assigned, and a style change, a property
\* change and a frame change draw nothing while no message was received.
C22_MessageBeforeRead == [](C22_State) /\ [][C22_Step]_vars

\* a frame change, a style change or a property change in Line style that
\* ran before the first message
C22_Witness ==
  /\ ~is_info_
  /\ msg_ = Null
  /\ n_events >= 2
  /\ \/ lastEvent = "fixedFrameChanged"
     \/ lastEvent \in {"updateCoMStyle", "updateCoMLineProperties"}
          /\ com_style_property_ = LINES
     \/ lastEvent \in {"updateContactStyle", "updateContactLineProperties"}
          /\ contact_style_property_ = LINES
  /\ Drawables = {}
  /\ "msg_->" \notin fault

-----------------------------------------------------------------------------
(* C23 *)

\* the capacity a strip was made with
C23_Capacity(strip) ==
  IF "max" \in DOMAIN strip THEN strip.max ELSE strip.est

\* the step of the first appearance of the name N
C23_FirstStep(N) ==
  CHOOSE i \in 1..NSteps :
    /\ C2_Present(N, i)
    /\ \A j \in 1..NSteps : C2_Present(N, j) => i <= j

\* C23: a rebuild over a trajectory of n steps gives the CoM strip exactly n
\* points and the strip of each contact track at most one point per step
\* from the step of the track's first appearance on, so that no strip holds
\* more points than the capacity n it was made with.
C23_Capacity_Respected ==
  /\ (CoMRebuilt /\ com_style_property_ \in {BILLBOARDS, LINES}
        /\ NSteps > 0) =>
       /\ CoMStrip # Null
       /\ Len(CoMStrip[1].pts) = NSteps
       /\ C23_Capacity(CoMStrip[1]) = NSteps
  /\ (ContactRebuilt /\ contact_style_property_ \in {BILLBOARDS, LINES}) =>
       /\ Len(ContactStrips) = Cardinality(DistinctNames)
       /\ \A N \in DistinctNames :
            LET strip == ContactStrips[C15_Ids[N] + 1][1] IN
            /\ C23_Capacity(strip) = NSteps
            /\ Len(strip.pts) <= NSteps - C23_FirstStep(N) + 1
            /\ Len(strip.pts) <= C23_Capacity(strip)
  /\ \A d \in Drawables : "pts" \in DOMAIN d => Len(d.pts) <= C23_Capacity(d)

\* left_foot in both steps, right_foot from the second step on
C23_Witness ==
  /\ lastEvent = "processMessage" /\ com_enable_ /\ contact_enable_
  /\ com_style_property_ = BILLBOARDS /\ contact_style_property_ = BILLBOARDS
  /\ NSteps = 2
  /\ Len(Trajectory[1].contacts) = 1
  /\ Trajectory[1].contacts[1].name = "left_foot"
  /\ Len(Trajectory[2].contacts) = 2
  /\ Trajectory[2].contacts[1].name = "left_foot"
  /\ Trajectory[2].contacts[2].name = "right_foot"
  /\ com_billboard_line_ # Null
  /\ Len(com_billboard_line_[1].pts) = 2 /\ com_billboard_line_[1].max = 2
  /\ Len(contact_billboard_line_) = 2
  /\ Len(contact_billboard_line_[1][1].pts) = 2
  /\ contact_billboard_line_[1][1].max = 2
  /\ Len(contact_billboard_line_[2][1].pts) = 1
  /\ contact_billboard_line_[2][1].max = 2

====
